---- MODULE Spec2Model ----
(***************************************************************************)
(* A model of patefield: Patefield's algorithm AS 159 (rcont2), the margin *)
(* validator, the log-factorial table and the two generation drivers.      *)
(*                                                                         *)
(* Conventions of the model                                                *)
(*  - C arrays are 0-based; the margins and jwork are TLA+ sequences, so   *)
(*    n_row_sums[l] of the code is n_row_sums[l + 1] here.  The result     *)
(*    buffer is a function on the flat 0-based indices that have been      *)
(*    written: an index outside its DOMAIN holds no defined value.         *)
(*  - A double is an exact rational <<num, den>>.  A value of the log      *)
(*    domain (an entry of the factorial table, a sum of such entries) is   *)
(*    held as the rational whose logarithm it is: adding logarithms is     *)
(*    multiplying, subtracting is dividing, std::exp reads the rational.   *)
(*  - uni_dist(rng) is an open-interval uniform draw.  All masses of one   *)
(*    cell are multiples of 1/N, N = C(ie, ia), so the draw is one of the  *)
(*    N midpoints (2k-1)/(2N): one representative of each class of draws   *)
(*    the comparisons r <= sumprb can tell apart.                          *)
(***************************************************************************)
EXTENDS Integers, Sequences, FiniteSets, TLC

\* ---------------------------------------------------------------- bounds
\* largest n_row and n_col drawn
MaxDim == 3
\* largest sum of the positive entries of one margin vector
MaxTotal == 5
\* check_inputs on its own: largest n_row and n_col, largest absolute sum
ValMaxDim == 2
ValMaxSum == 6
\* the batch driver: most tables and threads, largest total of a 2 x 2 table
MaxTables == 2
MaxThreads == 2
BatchMaxTotal == 2
\* counts beyond 2^31: the bits of the unit, the largest total in units
WideUnitBits == 29
WideMaxTotal == 6
\* the first cell of a 2 x 2 table: largest total
WalkMaxTotal == 8
\* one batch run to its return on one or two threads: most tables
CompletionMaxTables == 2
\* two runs of one seeded batch on two threads: most tables
StreamsMaxTables == 2
\* two runs of one seeded call: largest seed, largest total of a 2 x 2 table
MaxSeed == 2
SeedMaxTotal == 3

\* ------------------------------------------------------------ arithmetic
Abs(a) == IF a < 0 THEN 0 - a ELSE a

Min(a, b) == IF a <= b THEN a ELSE b

Max(a, b) == IF a >= b THEN a ELSE b

RECURSIVE GCD(_, _)
GCD(a, b) == IF b = 0 THEN a ELSE GCD(b, a % b)

\* the one element of a set of one element; {e(x) : x \in {v}} names the
\* value of v once, as an assignment to a local does
Only(S) == CHOOSE v \in S : TRUE

\* the rational n/d in lowest terms with a positive denominator
Rat(n, d) ==
    Only({ <<((IF y < 0 THEN 0 - 1 ELSE 1) * x) \div g,
             ((IF y < 0 THEN 0 - 1 ELSE 1) * y) \div g>> :
           <<x, y, g>> \in {<<n, d, GCD(Abs(n), Abs(d))>>} })

RMul(a, b) ==
    Only({ Only({ Rat((x[1] \div g[1]) * (y[1] \div g[2]),
                      (x[2] \div g[2]) * (y[2] \div g[1])) :
                  g \in {<<GCD(Abs(x[1]), y[2]), GCD(Abs(y[1]), x[2])>>} }) :
           x \in {a}, y \in {b} })

RDiv(a, b) == Only({ RMul(a, <<y[2], y[1]>>) : y \in {b} })

RAdd(a, b) ==
    Only({ Rat(x[1] * y[2] + y[1] * x[2], x[2] * y[2]) : x \in {a}, y \in {b} })

RLeq(a, b) == Only({ x[1] * y[2] <= y[1] * x[2] : x \in {a}, y \in {b} })

\* a C++ conversion to an integer type truncates toward zero
TruncDiv(a, b) ==
    IF (a >= 0) = (b > 0) THEN Abs(a) \div Abs(b) ELSE 0 - (Abs(a) \div Abs(b))

RECURSIVE Choose(_, _)
Choose(n, k) ==
    IF k < 0 \/ k > n THEN 0
    ELSE IF k = 0 THEN 1
    ELSE (Choose(n - 1, k - 1) * n) \div k

\* the sum of a sequence
RECURSIVE Sum(_)
Sum(s) == IF s = <<>> THEN 0 ELSE Head(s) + Sum(Tail(s))

\* ------------------------------------------------------------ the state
VARIABLES
    api,            \* "table": generate_contingency_table, "tables": ..._tables
    n_tables,       \* argument n_tables (1 for a single table)
    n_threads,      \* argument n_threads (1 for a single table)
    n_row,          \* argument n_row
    n_col,          \* argument n_col
    n_row_sums,     \* argument n_row_sums, n_row entries
    n_col_sums,     \* argument n_col_sums, n_col entries
    arg_n_total,    \* argument n_total as the caller passed it
    seed,           \* argument seed
    T,              \* the template argument: "int" or "int64_t"
    unit_bits,      \* margins are held in multiples of 2^unit_bits
    malloc_fails,   \* the std::malloc calls of this call that return nullptr
    precision,      \* 0: doubles are exact; q > 0: they are multiples of 1/q
    repeat,         \* how many more times the caller repeats this very call
    run,            \* which call of the caller this is, from 1
    pc,             \* where the driver is
    n_total,        \* the driver's n_total
    factorial_table,\* the driver's factorial_table, <<>> while nullptr
    result,         \* the result buffer: flat index -> value written there
    global_rng,     \* the driver's engine (rng, global_rng)
    frame,          \* thread -> its engine and its rcont2 locals
    todo,           \* iterations of the omp for loop not yet handed out
    owner,          \* the schedule of the omp for loop: iteration -> thread
    prev_owner,     \* the schedule of the previous call of the caller
    draws,          \* number of uni_dist(rng) calls of this call so far
    writers,        \* flat index -> the <<thread, table>> that stored to it
    oracle,         \* what the engines returned: <<state, stream, pos>> -> <<k, N>>
    prev_result     \* the buffer the previous call of the caller returned

vars == <<api, n_tables, n_threads, n_row, n_col, n_row_sums, n_col_sums,
          arg_n_total, seed, T, unit_bits, malloc_fails, precision, repeat, run, pc, n_total, factorial_table, result,
          global_rng, frame, todo, owner, prev_owner, draws, writers, oracle,
          prev_result>>

sched == <<owner, prev_owner>>

args == <<api, n_tables, n_threads, n_row, n_col, n_row_sums, n_col_sums,
          arg_n_total, seed, T, unit_bits, malloc_fails, precision>>

\* ------------------------------------------------------- integer widths
(***************************************************************************)
(* TLC's integers are the 32-bit int, so a count that is held as itself    *)
(* (unit_bits = 0) is always an int and no conversion changes it.  Counts  *)
(* beyond 2^31 are held in multiples of 2^unit_bits: k stands for          *)
(* k * 2^unit_bits, and the limits of the C types are divided accordingly. *)
(***************************************************************************)
Bits == IF T = "int" THEN 32 ELSE 64

\* int holds [-IntLimit, IntLimit) in units, when unit_bits > 0
IntLimit == 2 ^ (31 - unit_bits)

FitsInt(v) == unit_bits = 0 \/ (v >= 0 - IntLimit /\ v < IntLimit)

\* the conversion of an integer to int: modulo 2^32
ToInt(v) ==
    IF unit_bits = 0 THEN v
    ELSE ((v + IntLimit) % (2 * IntLimit)) - IntLimit

\* whether the product a * b, computed in T, is representable
MulFits(a, b) ==
    \/ unit_bits = 0
    \/ a * b = 0
    \/ /\ Bits - 1 > 2 * unit_bits
       /\ Abs(a * b) < 2 ^ (Bits - 1 - 2 * unit_bits)

\* whether the double ia * id / ie + 0.5 is in the range of int, for counts
\* that are not negative and ie > 0; half a count is less than any unit
ModeFits(ia, id, ie) == unit_bits = 0 \/ ia * id < IntLimit * ie

\* line 149: the product is computed in T and the quotient is cast to int;
\* the statement has defined behaviour when both are representable
ModeDefined(ia, id, ie) == MulFits(ia, id) /\ ModeFits(ia, id, ie)

\* ------------------------------------------------------------- validator
NoError == "none"

InputError == "InputError"

\* std::bad_alloc, thrown by the drivers
BadAlloc == "bad_alloc"

Undefined == "undefined"

\* std::accumulate(first, last, 0): the accumulator has the type of the
\* literal 0, int, whatever T is.  acc = acc + *first is computed in int64_t
\* and converted back to int when T is int64_t; it is computed in int, where
\* overflow is undefined, when T is int.  The result is <<defined, value>>.
RECURSIVE accumulate(_, _)
accumulate(s, acc) ==
    IF s = <<>> THEN <<TRUE, acc>>
    ELSE IF T = "int" /\ ~FitsInt(acc + Head(s)) THEN <<FALSE, 0>>
    ELSE accumulate(Tail(s), ToInt(acc + Head(s)))

\* check_inputs without the loop over the column sums
check_inputs_NoColumnCheck(nr, nc, rs, cs) ==
    LET sc == accumulate(cs, 0)
        sr == accumulate(rs, 0)
    IN  IF nr <= 1 THEN [error |-> InputError, n_total |-> 0]
        ELSE IF nc <= 1 THEN [error |-> InputError, n_total |-> 0]
        ELSE IF \E i \in 1..nr : rs[i] <= 0 THEN [error |-> InputError, n_total |-> 0]
        ELSE IF ~sc[1] \/ ~sr[1] THEN [error |-> Undefined, n_total |-> 0]
        ELSE IF sc[2] # sr[2] THEN [error |-> InputError, n_total |-> 0]
        ELSE [error |-> NoError, n_total |-> sc[2]]

\* check_inputs: the exception it throws, or the total it returns
check_inputs(nr, nc, rs, cs) ==
    LET sc == accumulate(cs, 0)
        sr == accumulate(rs, 0)
    IN  IF nr <= 1 THEN [error |-> InputError, n_total |-> 0]
        ELSE IF nc <= 1 THEN [error |-> InputError, n_total |-> 0]
        ELSE IF \E i \in 1..nr : rs[i] <= 0 THEN [error |-> InputError, n_total |-> 0]
        ELSE IF \E j \in 1..nc : cs[j] <= 0 THEN [error |-> InputError, n_total |-> 0]
        ELSE IF ~sc[1] \/ ~sr[1] THEN [error |-> Undefined, n_total |-> 0]
        ELSE IF sc[2] # sr[2] THEN [error |-> InputError, n_total |-> 0]
        ELSE [error |-> NoError, n_total |-> sc[2]]

\* -------------------------------------------------- log-factorial table
\* std::log(static_cast<double>(i)), in the log domain
Log(i) == <<i, 1>>

LogAdd(a, b) == RMul(a, b)

LogSub(a, b) == RDiv(a, b)

\* a double result that is not negative, as the machine keeps it: itself
\* when doubles are taken as exact, otherwise cut down to a multiple of
\* 1 / precision, so that a mass below 1 / precision underflows to 0
Fl(a) ==
    IF precision = 0 THEN a
    ELSE Only({ Rat((x[1] * precision) \div x[2], precision) : x \in {a} })

\* std::exp
Exp(a) == Fl(a)

\* 0.0 of the log domain
LogZero == <<1, 1>>

\* the loop storing table[i] = x before x += log(i)
RECURSIVE FactorialLoop_StoreFirst(_, _, _, _)
FactorialLoop_StoreFirst(table, x, i, n) ==
    IF i > n THEN table
    ELSE Only({ FactorialLoop_StoreFirst(Append(table, v[1]), v[2], i + 1, n) :
                v \in {<<x, LogAdd(x, Log(i))>>} })

\* the loop of create_factorial_table: table[i] = x after x += log(i)
RECURSIVE FactorialLoop(_, _, _, _)
FactorialLoop(table, x, i, n) ==
    IF i > n THEN table
    ELSE Only({ FactorialLoop(t2, t2[Len(t2)], i + 1, n) :
                t2 \in {Append(table, LogAdd(x, Log(i)))} })

\* create_factorial_table(n_total), n_total >= 0: entry i of the C array is
\* element i + 1 of the sequence
create_factorial_table(n) == FactorialLoop(<<LogZero>>, LogZero, 1, n)

\* ------------------------------------------------ rcont2: one table cell
\* factorial_table[k] reads inside the array create_factorial_table returned
InTable(ft, k) == k >= 0 /\ k < Len(ft)

Lookup(ft, k) == ft[k + 1]

\* ie read from jc, from which the row's sum has already been taken
CellQuantities_NextTotal(f) ==
    LET id == f.jwork[f.m + 1]
        ie == f.jc
    IN  [ia |-> f.ia, id |-> id, ie |-> ie, ic |-> ie - id,
         ib |-> ie - f.ia, ii |-> (ie - f.ia) - id]

\* lines 127-131: id, ie, ic, ib, ii of the cell (l, m) of frame f
CellQuantities(f) ==
    LET id == f.jwork[f.m + 1]
        ie == f.ic
    IN  [ia |-> f.ia, id |-> id, ie |-> ie, ic |-> ie - id,
         ib |-> ie - f.ia, ii |-> (ie - f.ia) - id]

\* line 149: static_cast<int>(double(ia * id) / double(ie) + 0.5)
Mode(ia, id, ie) == TruncDiv(2 * ia * id + ie, 2 * ie)

\* lines 150-159: the nine indices with which the table is read at the mode
LookupIndices(c, nlm) ==
    <<c.ia, c.ib, c.ic, c.id, c.ie, nlm, c.id - nlm, c.ia - nlm, c.ii + nlm>>

\* x without the term - factorial_table[ie]
ModeMass_NoTotal(ft, c, nlm) ==
    Exp(LogSub(LogSub(LogSub(LogSub(
        LogAdd(LogAdd(LogAdd(Lookup(ft, c.ia), Lookup(ft, c.ib)),
                      Lookup(ft, c.ic)), Lookup(ft, c.id)),
        Lookup(ft, nlm)), Lookup(ft, c.id - nlm)),
        Lookup(ft, c.ia - nlm)), Lookup(ft, c.ii + nlm)))

\* lines 156-159: x, the mass of the mode
ModeMass(ft, c, nlm) ==
    Exp(LogSub(LogSub(LogSub(LogSub(LogSub(
        LogAdd(LogAdd(LogAdd(Lookup(ft, c.ia), Lookup(ft, c.ib)),
                      Lookup(ft, c.ic)), Lookup(ft, c.id)),
        Lookup(ft, c.ie)), Lookup(ft, nlm)), Lookup(ft, c.id - nlm)),
        Lookup(ft, c.ia - nlm)), Lookup(ft, c.ii + nlm)))

\* while (!lsm) without `if (!lsp) break;`: once entered it walks down to
\* its boundary before the next step up
RECURSIVE WalkDown_NoBreak(_, _, _)
WalkDown_NoBreak(c, r, s0) ==
    Only({
      IF s.lsm THEN s
      ELSE LET j  == s.nll * (c.ii + s.nll)
               l1 == s.nll - 1
           IN  IF j = 0 THEN [s EXCEPT !.lsm = TRUE]
               ELSE Only({
                      IF RLeq(r, s1.sumprb)
                      THEN [s1 EXCEPT !.nlm = l1, !.done2 = TRUE]
                      ELSE WalkDown_NoBreak(c, r, s1) :
                      s1 \in { Only({ [s EXCEPT !.nll = l1, !.y = y1,
                                                !.sumprb = RAdd(s.sumprb, y1),
                                                !.tried = Append(s.tried, l1)] :
                                      y1 \in {Fl(RDiv(RMul(s.y, <<j, 1>>),
                                                   <<(c.id - l1) * (c.ia - l1), 1>>))} }) } }) :
      s \in {s0} })

\* lines 172-217: the two nested loops of one search pass.  s holds nlm, nll,
\* x, y, sumprb, lsp, lsm, done1, done2 and, as a record of the pass, the
\* values tried in order.  WalkUp is one turn of while (!lsp), entered with
\* lsp false; WalkDown is while (!lsm).
RECURSIVE WalkUp(_, _, _)
RECURSIVE WalkDown(_, _, _)
WalkUp(c, r, s0) ==
    Only({
      LET j  == (c.id - s.nlm) * (c.ia - s.nlm)
          n1 == s.nlm + 1
      IN  Only({
            IF s1.done1 THEN s1
            ELSE Only({ IF s2.done2 \/ s2.lsp THEN s2 ELSE WalkUp(c, r, s2) :
                        s2 \in {WalkDown(c, r, [s1 EXCEPT !.done2 = FALSE])} }) :
            s1 \in { IF j = 0 THEN [s EXCEPT !.lsp = TRUE]
                     ELSE Only({ [s EXCEPT !.nlm = n1, !.x = x1,
                                           !.sumprb = RAdd(s.sumprb, x1),
                                           !.tried = Append(s.tried, n1),
                                           !.done1 = RLeq(r, RAdd(s.sumprb, x1))] :
                                 x1 \in {Fl(RDiv(RMul(s.x, <<j, 1>>),
                                              <<n1 * (c.ii + n1), 1>>))} }) } }) :
      s \in {s0} })

WalkDown(c, r, s0) ==
    Only({
      IF s.lsm THEN s
      ELSE LET j  == s.nll * (c.ii + s.nll)
               l1 == s.nll - 1
           IN  IF j = 0 THEN [s EXCEPT !.lsm = TRUE]
               ELSE Only({
                      IF RLeq(r, s1.sumprb)
                      THEN [s1 EXCEPT !.nlm = l1, !.done2 = TRUE]
                      ELSE IF ~s1.lsp THEN s1
                      ELSE WalkDown(c, r, s1) :
                      s1 \in { Only({ [s EXCEPT !.nll = l1, !.y = y1,
                                                !.sumprb = RAdd(s.sumprb, y1),
                                                !.tried = Append(s.tried, l1)] :
                                      y1 \in {Fl(RDiv(RMul(s.y, <<j, 1>>),
                                                   <<(c.id - l1) * (c.ia - l1), 1>>))} }) } }) :
      s \in {s0} })

\* lines 148-225: one pass of for (;;) with the draw r: whether it accepted
\* (break at 162, 220 or 224), the value nlm, sumprb and the values tried
SearchPass(ft, c, r) ==
    Only({
      IF RLeq(r, v[2])
      THEN [accepted |-> TRUE, nlm |-> v[1], sumprb |-> v[2], tried |-> <<v[1]>>]
      ELSE Only({ [accepted |-> s.done1 \/ s.done2, nlm |-> s.nlm,
                   sumprb |-> s.sumprb, tried |-> s.tried] :
                  s \in {WalkUp(c, r, [nlm |-> v[1], nll |-> v[1], x |-> v[2],
                                       y |-> v[2], sumprb |-> v[2],
                                       lsp |-> FALSE, lsm |-> FALSE,
                                       done1 |-> FALSE, done2 |-> FALSE,
                                       tried |-> <<v[1]>>])} }) :
      v \in {<<Mode(c.ia, c.id, c.ie),
               ModeMass(ft, c, Mode(c.ia, c.id, c.ie))>>} })

\* line 108, 143: the draws uni_dist(rng) can return for a cell, one per class
DrawClasses(c) == Max(1, Choose(c.ie, c.ia))

uni_dist(k, n) == <<2 * k - 1, 2 * n>>

Threads == 0..(n_threads - 1)

\* size_t block_size = n_row * n_col
block_size == n_row * n_col

\* rcont2 called with result itself for every table
FlatIndex_NoBlock(tbl, l, j) == l + j * n_row

\* result[l + j * n_row] of rcont2, called with result + tbl * block_size
FlatIndex(tbl, l, j) == tbl * block_size + l + j * n_row

NoRng == [state |-> <<"unseeded">>, stream |-> <<"default">>, pos |-> 0]

\* the engine seeded from the entropy source whatever seed is
SeededRng_Entropy ==
    [state |-> <<"entropy", run>>, stream |-> <<"default">>, pos |-> 0]

\* pcg64_dxsm rng; rng.seed(seed) or rng.seed(seed_source): the state an
\* entropy source yields is a fresh unknown of this call
SeededRng ==
    [state  |-> IF seed = 0 THEN <<"entropy", run>> ELSE <<"seed", seed>>,
     stream |-> <<"default">>, pos |-> 0]

\* the copy of global_rng without the call of set_stream
ThreadRng_NoStream(t) == global_rng

\* pcg64_dxsm rng = global_rng; rng.set_stream(omp_get_thread_num() + 1)
ThreadRng(t) == [global_rng EXCEPT !.stream = <<"set", t + 1>>]

IdleFrame(rng) ==
    [pcr |-> "idle", tbl |-> 0, l |-> 0, m |-> 0, ia |-> 0, ib |-> 0,
     ib_set |-> FALSE, ic |-> 0, jc |-> 0, jwork |-> <<>>, rng |-> rng,
     id |-> 0, ie |-> 0, ii |-> 0, nlm |-> 0, r |-> <<0, 1>>, sumprb |-> <<0, 1>>]

\* rcont2 lines 111-118, for table tbl: jwork holds the first n_col - 1 column
\* sums, jc = n_total; ib is declared and not initialised
Rcont2Enter(f, tbl, total) ==
    [IdleFrame(f.rng) EXCEPT !.pcr = "row", !.tbl = tbl, !.jc = total,
        !.jwork = [k \in 1..(n_col - 1) |-> n_col_sums[k]]]

\* ---------------------------------------------------------------- drivers
\* std::malloc for the named pointer returns memory, or nullptr
malloc(what) == what \notin malloc_fails

\* lines 103-119 / 164-182: validate when n_total == 0, build the table, get
\* the result buffer, seed the engine; then the single-table driver enters
\* rcont2 and the batch driver opens its parallel region.
\* create_factorial_table does not test what std::malloc returned and stores
\* table[0] through it: with nullptr that store is undefined behaviour.  The
\* drivers test result and throw std::bad_alloc.
Call ==
    /\ pc = "call"
    /\ api \in {"table", "tables"}
    /\ LET chk   == check_inputs(n_row, n_col, n_row_sums, n_col_sums)
           total == IF n_total = 0 THEN chk.n_total ELSE n_total
       IN  IF n_total = 0 /\ chk.error = InputError
           THEN /\ pc' = InputError
                /\ UNCHANGED <<n_total, factorial_table, global_rng, frame, todo, owner>>
           ELSE IF (n_total = 0 /\ chk.error = Undefined) \/ total < 0
                   \/ ~malloc("factorial_table")
           THEN /\ pc' = Undefined
                /\ n_total' = total
                /\ UNCHANGED <<factorial_table, global_rng, frame, todo, owner>>
           ELSE IF ~malloc("result")
           THEN /\ pc' = BadAlloc
                /\ n_total' = total
                /\ factorial_table' = create_factorial_table(total)
                /\ UNCHANGED <<global_rng, frame, todo, owner>>
           ELSE /\ pc' = "run"
                /\ n_total' = total
                /\ factorial_table' = create_factorial_table(total)
                /\ global_rng' = SeededRng
                /\ IF api = "table"
                   THEN /\ frame' = [t \in Threads |->
                                       Rcont2Enter(IdleFrame(SeededRng), 0, total)]
                        /\ todo' = {}
                        /\ owner' = owner
                   ELSE /\ frame' = [t \in Threads |->
                                       [IdleFrame(NoRng) EXCEPT !.pcr = "start"]]
                        /\ todo' = 0..(n_tables - 1)
                        /\ owner' \in [0..(n_tables - 1) -> Threads]
    /\ UNCHANGED <<args, prev_owner, repeat, run, result, draws, writers, oracle, prev_result>>

\* ------------------------------------------------------------------ rcont2
Store(buf, idx, v) == [i \in DOMAIN buf \cup {idx} |-> IF i = idx THEN v ELSE buf[i]]

Note(w, idx, t, tbl) ==
    [i \in DOMAIN w \cup {idx} |->
        IF i = idx THEN (IF i \in DOMAIN w THEN w[i] ELSE <<>>) \o <<<<t, tbl>>>>
        ELSE w[i]]

\* lines 120-124, and the loop exit to line 236
RowStart(t) ==
    /\ pc = "run"
    /\ frame[t].pcr = "row"
    /\ LET f == frame[t]
       IN  frame' = [frame EXCEPT ![t] =
             IF f.l < n_row - 1
             THEN [f EXCEPT !.ia = n_row_sums[f.l + 1], !.ic = f.jc,
                            !.jc = f.jc - n_row_sums[f.l + 1], !.m = 0,
                            !.pcr = IF 0 < n_col - 1 THEN "cell" ELSE "rowend"]
             ELSE [f EXCEPT !.pcr = "lastrow"]]
    /\ UNCHANGED <<args, sched, repeat, run, pc, n_total, factorial_table, result,
                   global_rng, todo, draws, writers, oracle, prev_result>>

\* the zero loop stopping one column early, at j < n_col - 1
RECURSIVE StoreZeros_ExceptLast(_, _, _, _)
StoreZeros_ExceptLast(buf, tbl, l, j) ==
    IF j >= n_col - 1 THEN buf
    ELSE StoreZeros_ExceptLast(Store(buf, FlatIndex(tbl, l, j), 0), tbl, l, j + 1)

\* lines 136-138: result[l + j * n_row] = 0 for j = m .. n_col - 1
RECURSIVE StoreZeros(_, _, _, _)
StoreZeros(buf, tbl, l, j) ==
    IF j >= n_col THEN buf
    ELSE StoreZeros(Store(buf, FlatIndex(tbl, l, j), 0), tbl, l, j + 1)

RECURSIVE NoteRange(_, _, _, _, _)
NoteRange(w, t, tbl, l, j) ==
    IF j >= n_col THEN w
    ELSE NoteRange(Note(w, FlatIndex(tbl, l, j), t, tbl), t, tbl, l, j + 1)

\* the engine's outputs are kept only when the caller repeats the call
Recording == repeat > 0 \/ run > 1

RngKey(rng) == <<rng.state, rng.stream, rng.pos>>

\* an engine is a function of its state: where it was asked before, its
\* output lies in the same class of draws
DrawSet(rng, n) ==
    IF RngKey(rng) \in DOMAIN oracle
    THEN LET k0 == oracle[RngKey(rng)][1]
             n0 == oracle[RngKey(rng)][2]
         IN  {k \in 1..n : (k - 1) * n0 < k0 * n /\ (k0 - 1) * n < k * n0}
    ELSE 1..n

Remember(rng, k, n) ==
    IF Recording
    THEN [x \in DOMAIN oracle \cup {RngKey(rng)} |->
            IF x = RngKey(rng) THEN <<k, n>> ELSE oracle[x]]
    ELSE oracle

\* lines 126-233, one turn of the column loop.
\* ie == 0 (lines 134-140): ia = 0, the rest of row l is zero, no draw, and
\* the column loop ends.
\* Otherwise (lines 143-232): draw r, one search pass, and on acceptance the
\* store of nlm with the updates of ia and jwork[m].  A product ia * id that
\* T cannot hold, a mode that int cannot hold and a read of the factorial
\* table outside its array are undefined behaviour; a pass that accepts
\* nothing leaves the cell at line 227.
SampleCell(t) ==
    /\ pc = "run"
    /\ frame[t].pcr = "cell"
    /\ LET f   == frame[t]
           c   == CellQuantities(f)
           nlm == Mode(c.ia, c.id, c.ie)
           N   == DrawClasses(c)
           g   == [f EXCEPT !.id = c.id, !.ie = c.ie, !.ic = c.ic, !.ib = c.ib,
                            !.ib_set = TRUE, !.ii = c.ii]
           h   == [g EXCEPT !.rng = [f.rng EXCEPT !.pos = f.rng.pos + 1]]
       IN  IF c.ie = 0
           THEN /\ frame' = [frame EXCEPT ![t] =
                               [g EXCEPT !.ia = 0, !.pcr = "rowend"]]
                /\ result' = StoreZeros(result, f.tbl, f.l, f.m)
                /\ writers' = NoteRange(writers, t, f.tbl, f.l, f.m)
                /\ UNCHANGED <<pc, draws, oracle>>
           ELSE /\ draws' = draws + 1
                /\ \E k \in DrawSet(f.rng, N) :
                     /\ oracle' = Remember(f.rng, k, N)
                     /\ IF \/ ~ModeDefined(c.ia, c.id, c.ie)
                           \/ \E i \in 1..9 :
                                ~InTable(factorial_table, LookupIndices(c, nlm)[i])
                        THEN /\ pc' = Undefined
                             /\ frame' = [frame EXCEPT ![t] = [h EXCEPT !.nlm = nlm]]
                             /\ UNCHANGED <<result, writers>>
                        ELSE \E p \in {SearchPass(factorial_table, c, uni_dist(k, N))} :
                             IF p.accepted
                             THEN /\ pc' = pc
                                  /\ frame' = [frame EXCEPT ![t] =
                                       [h EXCEPT !.nlm = p.nlm, !.ia = c.ia - p.nlm,
                                          !.jwork[f.m + 1] = f.jwork[f.m + 1] - p.nlm,
                                          !.m = f.m + 1,
                                          !.pcr = IF f.m + 1 < n_col - 1
                                                  THEN "cell" ELSE "rowend"]]
                                  /\ result' = Store(result, FlatIndex(f.tbl, f.l, f.m), p.nlm)
                                  /\ writers' = Note(writers, FlatIndex(f.tbl, f.l, f.m), t, f.tbl)
                             ELSE /\ pc' = pc
                                  /\ frame' = [frame EXCEPT ![t] =
                                       [h EXCEPT !.nlm = p.nlm, !.r = uni_dist(k, N),
                                          !.sumprb = p.sumprb, !.pcr = "redraw"]]
                                  /\ UNCHANGED <<result, writers>>
    /\ UNCHANGED <<args, sched, repeat, run, n_total, factorial_table, global_rng,
                   todo, prev_result>>

\* the classes of u = uni_dist(rng) told apart at line 227
RedrawClasses == 2

\* the cell a frame is searching, after line 131 has set its quantities
RedrawCell(f) ==
    [ia |-> f.ia, id |-> f.id, ie |-> f.ie, ic |-> f.ic, ib |-> f.ib, ii |-> f.ii]

\* r = uni_dist(rng), the accumulated mass left out
redraw_Unscaled(sumprb, u) == u

\* line 227: r = sumprb * uni_dist(rng)
redraw(sumprb, u) == Fl(RMul(sumprb, u))

\* line 227 and the next turn of for (;;): the pass nothing was accepted in
\* is repeated from the mode with the new r and the same ia, id, ie
Redraw(t) ==
    /\ pc = "run"
    /\ frame[t].pcr = "redraw"
    /\ LET f == frame[t]
           c == RedrawCell(f)
           h == [f EXCEPT !.rng = [f.rng EXCEPT !.pos = f.rng.pos + 1]]
       IN  /\ draws' = draws + 1
           /\ \E k \in DrawSet(f.rng, RedrawClasses) :
                /\ oracle' = Remember(f.rng, k, RedrawClasses)
                /\ \E p \in {SearchPass(factorial_table, c,
                                redraw(f.sumprb, uni_dist(k, RedrawClasses)))} :
                     IF p.accepted
                     THEN /\ frame' = [frame EXCEPT ![t] =
                               [h EXCEPT !.nlm = p.nlm, !.ia = c.ia - p.nlm,
                                  !.r = redraw(f.sumprb, uni_dist(k, RedrawClasses)),
                                  !.jwork[f.m + 1] = f.jwork[f.m + 1] - p.nlm,
                                  !.m = f.m + 1,
                                  !.pcr = IF f.m + 1 < n_col - 1
                                          THEN "cell" ELSE "rowend"]]
                          /\ result' = Store(result, FlatIndex(f.tbl, f.l, f.m), p.nlm)
                          /\ writers' = Note(writers, FlatIndex(f.tbl, f.l, f.m), t, f.tbl)
                     ELSE /\ frame' = [frame EXCEPT ![t] =
                               [h EXCEPT !.nlm = p.nlm, !.sumprb = p.sumprb,
                                  !.r = redraw(f.sumprb, uni_dist(k, RedrawClasses))]]
                          /\ UNCHANGED <<result, writers>>
    /\ UNCHANGED <<args, sched, repeat, run, pc, n_total, factorial_table,
                   global_rng, todo, prev_result>>

\* line 234: the last column of row l receives what is left of the row
RowEnd(t) ==
    /\ pc = "run"
    /\ frame[t].pcr = "rowend"
    /\ LET f == frame[t]
       IN  /\ frame' = [frame EXCEPT ![t] = [f EXCEPT !.l = f.l + 1, !.pcr = "row"]]
           /\ result' = Store(result, FlatIndex(f.tbl, f.l, n_col - 1), f.ia)
           /\ writers' = Note(writers, FlatIndex(f.tbl, f.l, n_col - 1), t, f.tbl)
    /\ UNCHANGED <<args, sched, repeat, run, pc, n_total, factorial_table, global_rng,
                   todo, draws, oracle, prev_result>>

\* lines 237-239: result[n_row - 1 + j * n_row] = jwork[j], j < n_col - 1
RECURSIVE StoreWork(_, _, _, _)
StoreWork(buf, tbl, jwork, j) ==
    IF j >= n_col - 1 THEN buf
    ELSE StoreWork(Store(buf, FlatIndex(tbl, n_row - 1, j), jwork[j + 1]),
                   tbl, jwork, j + 1)

RECURSIVE NoteWork(_, _, _, _)
NoteWork(w, t, tbl, j) ==
    IF j >= n_col - 1 THEN w
    ELSE NoteWork(Note(w, FlatIndex(tbl, n_row - 1, j), t, tbl), t, tbl, j + 1)

\* line 240 subtracting the first cell of the last row
LastCell_FirstColumn(f, buf) == f.ib - buf[FlatIndex(f.tbl, n_row - 1, 0)]

\* line 240 without the subtraction: the last cell takes all of ib
LastCell_NoResidual(f, buf) == f.ib

\* line 240: the last cell is ib minus the cell before it in the last row
LastCell(f, buf) == f.ib - buf[FlatIndex(f.tbl, n_row - 1, n_col - 2)]

\* lines 236-242.  Line 240 reads ib, which no statement has set when the row
\* loop never ran, and result[n_row - 1 + (n_col - 2) * n_row], which lies
\* before the block when n_col < 2: both reads are undefined behaviour.
LastRow(t) ==
    /\ pc = "run"
    /\ frame[t].pcr = "lastrow"
    /\ LET f    == frame[t]
           buf  == StoreWork(result, f.tbl, f.jwork, 0)
           w    == NoteWork(writers, t, f.tbl, 0)
           last == FlatIndex(f.tbl, n_row - 1, n_col - 1)
       IN  IF ~f.ib_set \/ n_col < 2
           THEN /\ pc' = Undefined
                /\ result' = buf
                /\ writers' = w
                /\ UNCHANGED frame
           ELSE /\ pc' = pc
                /\ result' = Store(buf, last, LastCell(f, buf))
                /\ writers' = Note(w, last, t, f.tbl)
                /\ frame' = [frame EXCEPT ![t] = [f EXCEPT !.pcr = "done"]]
    /\ UNCHANGED <<args, sched, repeat, run, n_total, factorial_table, global_rng,
                   todo, draws, oracle, prev_result>>

\* generate_contingency_table line 124: return result
Return ==
    /\ pc = "run"
    /\ api = "table"
    /\ frame[0].pcr = "done"
    /\ pc' = "returned"
    /\ UNCHANGED <<args, sched, repeat, run, n_total, factorial_table, result,
                   global_rng, frame, todo, draws, writers, oracle, prev_result>>

\* ------------------------------------------------- the parallel region
\* lines 186-187: each thread copies global_rng and sets its own stream
ThreadStart(t) ==
    /\ pc = "run"
    /\ frame[t].pcr = "start"
    /\ frame' = [frame EXCEPT ![t] = IdleFrame(ThreadRng(t))]
    /\ UNCHANGED <<args, sched, repeat, run, pc, n_total, factorial_table, result,
                   global_rng, todo, draws, writers, oracle, prev_result>>

\* lines 189-193: the omp for loop gives every iteration i to one thread of
\* the team, the one the schedule chooses, and a thread runs its iterations
\* in increasing order; the thread enters rcont2 with
\* result + i * block_size and its own rng
TakeIteration(t) ==
    /\ pc = "run"
    /\ frame[t].pcr \in {"idle", "done"}
    /\ \E i \in todo :
         /\ owner[i] = t
         /\ \A j \in todo : owner[j] = t => i <= j
         /\ frame' = [frame EXCEPT ![t] = Rcont2Enter(frame[t], i, n_total)]
         /\ todo' = todo \ {i}
    /\ UNCHANGED <<args, sched, repeat, run, pc, n_total, factorial_table, result,
                   global_rng, draws, writers, oracle, prev_result>>

\* line 194: no iteration is left for the thread, which waits at the barrier
ThreadEnd(t) ==
    /\ pc = "run"
    /\ api = "tables"
    /\ frame[t].pcr \in {"idle", "done"}
    /\ \A i \in todo : owner[i] # t
    /\ frame' = [frame EXCEPT ![t].pcr = "joined"]
    /\ UNCHANGED <<args, sched, repeat, run, pc, n_total, factorial_table, result,
                   global_rng, todo, draws, writers, oracle, prev_result>>

\* the region ending as soon as one thread is at the barrier
Join_AnyThread ==
    /\ pc = "run"
    /\ api = "tables"
    /\ \E t \in Threads : frame[t].pcr = "joined"
    /\ pc' = "returned"
    /\ UNCHANGED <<args, sched, repeat, run, n_total, factorial_table, result,
                   global_rng, frame, todo, draws, writers, oracle, prev_result>>

\* lines 195-197: the region ends when every thread is at the barrier
Join ==
    /\ pc = "run"
    /\ api = "tables"
    /\ \A t \in Threads : frame[t].pcr = "joined"
    /\ pc' = "returned"
    /\ UNCHANGED <<args, sched, repeat, run, n_total, factorial_table, result,
                   global_rng, frame, todo, draws, writers, oracle, prev_result>>

\* the caller keeps the buffer and makes the same call again
Rerun ==
    /\ pc = "returned"
    /\ repeat > 0
    /\ repeat' = repeat - 1
    /\ run' = run + 1
    /\ prev_result' = result
    /\ pc' = "call"
    /\ n_total' = arg_n_total
    /\ factorial_table' = <<>>
    /\ result' = <<>>
    /\ global_rng' = NoRng
    /\ frame' = [t \in Threads |-> IdleFrame(NoRng)]
    /\ todo' = {}
    /\ draws' = 0
    /\ writers' = <<>>
    /\ prev_owner' = owner
    /\ owner' = <<>>
    /\ UNCHANGED <<args, oracle>>

\* details::check_inputs called on its own
Validate ==
    /\ pc = "call"
    /\ api = "check_inputs"
    /\ LET chk == check_inputs(n_row, n_col, n_row_sums, n_col_sums)
       IN  /\ pc' = IF chk.error = NoError THEN "validated" ELSE chk.error
           /\ n_total' = chk.n_total
    /\ UNCHANGED <<args, sched, repeat, run, factorial_table, result, global_rng,
                   frame, todo, draws, writers, oracle, prev_result>>

\* ------------------------------------------------------------------ inputs
MinEntry == 0 - 1

\* the margin vectors of length n with entries from lo and absolute sum at
\* most total
MarginVectors(n, lo, total) ==
    {s \in [1..n -> lo..total] : Sum([i \in 1..n |-> Abs(s[i])]) <= total}

\* the margins the documentation asks for: n_row >= 2, n_col >= 2, every
\* sum positive, both vectors of the same total
ValidMargins ==
    /\ n_row >= 2
    /\ n_col >= 2
    /\ \A i \in 1..n_row : n_row_sums[i] > 0
    /\ \A j \in 1..n_col : n_col_sums[j] > 0
    /\ Sum(n_row_sums) = Sum(n_col_sums)

NoBuffer == <<>>

InitCall ==
    /\ run = 1
    /\ pc = "call"
    /\ n_total = arg_n_total
    /\ factorial_table = <<>>
    /\ result = NoBuffer
    /\ global_rng = NoRng
    /\ frame = [t \in Threads |-> IdleFrame(NoRng)]
    /\ todo = {}
    /\ owner = <<>>
    /\ prev_owner = <<>>
    /\ draws = 0
    /\ writers = NoBuffer
    /\ oracle = <<>>
    /\ prev_result = NoBuffer

\* one call of generate_contingency_table<int> with positive margins, equal
\* in sum or not, and n_total left 0 or passed as the sum of the column sums
Init ==
    /\ api = "table"
    /\ n_tables = 1
    /\ n_threads = 1
    /\ n_row \in 1..MaxDim
    /\ n_col \in 1..MaxDim
    /\ n_row_sums \in MarginVectors(n_row, 1, MaxTotal)
    /\ n_col_sums \in MarginVectors(n_col, 1, MaxTotal)
    /\ arg_n_total \in {0, Sum(n_col_sums)}
    /\ seed = 1
    /\ T = "int"
    /\ unit_bits = 0
    /\ repeat = 0
    /\ malloc_fails = {}
    /\ precision = 0
    /\ InitCall

Next ==
    \/ Call
    \/ \E t \in Threads : RowStart(t)
    \/ \E t \in Threads : SampleCell(t)
    \/ \E t \in Threads : RowEnd(t)
    \/ \E t \in Threads : LastRow(t)
    \/ Return

Spec == Init /\ [][Next]_vars

\* details::create_factorial_table called on its own
CreateTable ==
    /\ pc = "call"
    /\ api = "create_factorial_table"
    /\ IF malloc("factorial_table")
       THEN /\ factorial_table' = create_factorial_table(n_total)
            /\ pc' = "returned"
       ELSE /\ factorial_table' = factorial_table
            /\ pc' = Undefined
    /\ UNCHANGED <<args, sched, repeat, run, n_total, result, global_rng, frame, todo,
                   draws, writers, oracle, prev_result>>

\* check_inputs<int> on margins with entries from -1,
\* check_inputs<int64_t> on the same margins, and create_factorial_table<int>
\* on every n_total from 0
InitFunctions ==
    /\ api \in {"check_inputs", "create_factorial_table"}
    /\ n_tables = 1
    /\ n_threads = 1
    /\ IF api = "check_inputs"
       THEN /\ n_row \in 1..ValMaxDim
            /\ n_col \in 1..ValMaxDim
            /\ n_row_sums \in MarginVectors(n_row, MinEntry, ValMaxSum)
            /\ n_col_sums \in MarginVectors(n_col, MinEntry, ValMaxSum)
            /\ arg_n_total = 0
       ELSE /\ n_row = 2
            /\ n_col = 2
            /\ n_row_sums = <<1, 1>>
            /\ n_col_sums = <<1, 1>>
            /\ arg_n_total \in 0..MaxTotal
    /\ seed = 1
    /\ T \in {"int", "int64_t"}
    /\ api = "create_factorial_table" => T = "int"
    /\ unit_bits = 0
    /\ repeat = 0
    /\ malloc_fails = {}
    /\ precision = 0
    /\ InitCall

NextFunctions ==
    \/ Validate
    \/ CreateTable

SpecFunctions == InitFunctions /\ [][NextFunctions]_vars

\* one call of generate_contingency_tables<int> with valid margins
InitBatch ==
    /\ api = "tables"
    /\ n_tables \in 1..MaxTables
    /\ n_threads \in 1..MaxThreads
    /\ n_row = 2
    /\ n_col = 2
    /\ n_row_sums \in MarginVectors(n_row, 1, BatchMaxTotal)
    /\ n_col_sums \in MarginVectors(n_col, 1, BatchMaxTotal)
    /\ Sum(n_row_sums) = Sum(n_col_sums)
    /\ arg_n_total = 0
    /\ seed = 1
    /\ T = "int"
    /\ unit_bits = 0
    /\ repeat = 0
    /\ malloc_fails = {}
    /\ precision = 0
    /\ InitCall

NextBatch ==
    \/ Call
    \/ \E t \in Threads : ThreadStart(t)
    \/ \E t \in Threads : TakeIteration(t)
    \/ \E t \in Threads : RowStart(t)
    \/ \E t \in Threads : SampleCell(t)
    \/ \E t \in Threads : RowEnd(t)
    \/ \E t \in Threads : LastRow(t)
    \/ \E t \in Threads : ThreadEnd(t)
    \/ Join

SpecBatch == InitBatch /\ [][NextBatch]_vars

\* the steps of thread t of the team
ThreadStep(t) ==
    /\ t \in Threads
    /\ \/ ThreadStart(t)
       \/ TakeIteration(t)
       \/ RowStart(t)
       \/ SampleCell(t)
       \/ RowEnd(t)
       \/ LastRow(t)
       \/ ThreadEnd(t)

\* the calling thread and every thread of the team keep running: a step
\* that stays possible is taken
FairBatch ==
    /\ WF_vars(Call)
    /\ WF_vars(Join)
    /\ \A t \in 0..(MaxThreads - 1) : WF_vars(ThreadStep(t))

\* one batch call on a team of one or two threads
InitCompletion ==
    /\ api = "tables"
    /\ n_tables \in 1..CompletionMaxTables
    /\ n_threads \in {1, 2}
    /\ n_row = 2
    /\ n_col = 2
    /\ n_row_sums = <<1, 1>>
    /\ n_col_sums = <<1, 1>>
    /\ arg_n_total \in {0, Sum(n_col_sums)}
    /\ seed \in {0, 1}
    /\ T = "int"
    /\ unit_bits = 0
    /\ repeat = 0
    /\ malloc_fails = {}
    /\ precision = 0
    /\ InitCall

SpecBatchFair == InitCompletion /\ [][NextBatch]_vars /\ FairBatch

\* two runs of one seeded batch call on a team of two threads, each run
\* under a schedule and an interleaving of its own
InitStreams ==
    /\ api = "tables"
    /\ n_tables \in 1..StreamsMaxTables
    /\ n_threads = 2
    /\ n_row = 2
    /\ n_col = 2
    /\ n_row_sums = <<1, 1>>
    /\ n_col_sums = <<1, 1>>
    /\ arg_n_total = 0
    /\ seed = 1
    /\ T = "int"
    /\ unit_bits = 0
    /\ repeat = 1
    /\ malloc_fails = {}
    /\ precision = 0
    /\ InitCall

NextStreams ==
    \/ Call
    \/ \E t \in Threads : ThreadStart(t)
    \/ \E t \in Threads : TakeIteration(t)
    \/ \E t \in Threads : RowStart(t)
    \/ \E t \in Threads : SampleCell(t)
    \/ \E t \in Threads : RowEnd(t)
    \/ \E t \in Threads : LastRow(t)
    \/ \E t \in Threads : ThreadEnd(t)
    \/ Join
    \/ Rerun

SpecStreams == InitStreams /\ [][NextStreams]_vars

\* one call of generate_contingency_table<int> on valid 2 x 2 margins: the
\* cell (0, 0) is sampled with ia, id < ie for every ie up to WalkMaxTotal
InitWalk ==
    /\ api = "table"
    /\ n_tables = 1
    /\ n_threads = 1
    /\ n_row = 2
    /\ n_col = 2
    /\ n_row_sums \in MarginVectors(n_row, 1, WalkMaxTotal)
    /\ n_col_sums \in MarginVectors(n_col, 1, WalkMaxTotal)
    /\ Sum(n_row_sums) = Sum(n_col_sums)
    /\ arg_n_total = 0
    /\ seed = 1
    /\ T = "int"
    /\ unit_bits = 0
    /\ repeat = 0
    /\ malloc_fails = {}
    /\ precision = 0
    /\ InitCall

SpecWalk == InitWalk /\ [][Next]_vars

\* the search with doubles of finite precision: largest total and finest
\* grid of the masses
SearchMaxTotal == 4
MaxPrecision == 3

\* one call of generate_contingency_table<int> on valid 2 x 2 margins, with
\* n_total left 0 or passed as their sum, the masses exact or cut down to
\* multiples of 1 / precision
InitSearch ==
    /\ api = "table"
    /\ n_tables = 1
    /\ n_threads = 1
    /\ n_row = 2
    /\ n_col = 2
    /\ n_row_sums \in MarginVectors(n_row, 1, SearchMaxTotal)
    /\ n_col_sums \in MarginVectors(n_col, 1, SearchMaxTotal)
    /\ Sum(n_row_sums) = Sum(n_col_sums)
    /\ arg_n_total \in {0, Sum(n_col_sums)}
    /\ seed = 1
    /\ T = "int"
    /\ unit_bits = 0
    /\ repeat = 0
    /\ malloc_fails = {}
    /\ precision \in 0..MaxPrecision
    /\ InitCall

NextSearch ==
    \/ Next
    \/ \E t \in Threads : Redraw(t)

\* the call is one sequential thread: it takes its next step
FairSearch == WF_vars(NextSearch)

SpecSearch == InitSearch /\ [][NextSearch]_vars /\ FairSearch

\* every way std::malloc can fail in create_factorial_table<int> and in
\* generate_contingency_table<int>, on valid 2 x 2 margins
InitAlloc ==
    /\ api \in {"table", "create_factorial_table"}
    /\ n_tables = 1
    /\ n_threads = 1
    /\ n_row = 2
    /\ n_col = 2
    /\ n_row_sums \in MarginVectors(n_row, 1, MaxTotal)
    /\ n_col_sums \in MarginVectors(n_col, 1, MaxTotal)
    /\ Sum(n_row_sums) = Sum(n_col_sums)
    /\ arg_n_total \in {0, Sum(n_col_sums)}
    /\ api = "create_factorial_table" => arg_n_total = Sum(n_col_sums)
    /\ seed = 1
    /\ T = "int"
    /\ unit_bits = 0
    /\ repeat = 0
    /\ malloc_fails \in SUBSET {"factorial_table", "result"}
    /\ api = "create_factorial_table" => "result" \notin malloc_fails
    /\ precision = 0
    /\ InitCall

NextAlloc ==
    \/ Call
    \/ CreateTable
    \/ \E t \in Threads : RowStart(t)
    \/ \E t \in Threads : SampleCell(t)
    \/ \E t \in Threads : RowEnd(t)
    \/ \E t \in Threads : LastRow(t)
    \/ Return

SpecAlloc == InitAlloc /\ [][NextAlloc]_vars

\* rcont2 lines 111-149 for the cell (0, 0) of a table a caller enters with
\* n_total, up to the statement that sets the mode nlm
FirstMode ==
    /\ pc = "call"
    /\ api = "rcont2"
    /\ pc' = IF ModeDefined(n_row_sums[1], n_col_sums[1], n_total)
             THEN "mode" ELSE Undefined
    /\ UNCHANGED <<args, sched, repeat, run, n_total, factorial_table, result,
                   global_rng, frame, todo, draws, writers, oracle, prev_result>>

\* what T holds, in units: int64_t holds every count of the model
FitsT(v) == T = "int64_t" \/ FitsInt(v)

\* check_inputs and the first mode of rcont2, for int and for int64_t, on
\* valid 2 x 2 margins held in units of 2^WideUnitBits whose total T holds
InitWide ==
    /\ api \in {"check_inputs", "rcont2"}
    /\ n_tables = 1
    /\ n_threads = 1
    /\ n_row = 2
    /\ n_col = 2
    /\ T \in {"int", "int64_t"}
    /\ unit_bits = WideUnitBits
    /\ n_row_sums \in MarginVectors(n_row, 1, WideMaxTotal)
    /\ n_col_sums \in MarginVectors(n_col, 1, WideMaxTotal)
    /\ Sum(n_row_sums) = Sum(n_col_sums)
    /\ FitsT(Sum(n_col_sums))
    /\ arg_n_total = IF api = "rcont2" THEN Sum(n_col_sums) ELSE 0
    /\ seed = 1
    /\ repeat = 0
    /\ malloc_fails = {}
    /\ precision = 0
    /\ InitCall

NextWide ==
    \/ Validate
    \/ FirstMode

SpecWide == InitWide /\ [][NextWide]_vars

\* two runs of the same call, on one thread, with every seed from 0
InitSeeded ==
    /\ api \in {"table", "tables"}
    /\ n_tables \in 1..MaxTables
    /\ api = "table" => n_tables = 1
    /\ n_threads = 1
    /\ n_row = 2
    /\ n_col = 2
    /\ n_row_sums \in MarginVectors(n_row, 1, SeedMaxTotal)
    /\ n_col_sums \in MarginVectors(n_col, 1, SeedMaxTotal)
    /\ Sum(n_row_sums) = Sum(n_col_sums)
    /\ arg_n_total \in {0, Sum(n_col_sums)}
    /\ seed \in 0..MaxSeed
    /\ T = "int"
    /\ unit_bits = 0
    /\ repeat = 1
    /\ malloc_fails = {}
    /\ precision = 0
    /\ InitCall

NextSeeded ==
    \/ Call
    \/ \E t \in Threads : ThreadStart(t)
    \/ \E t \in Threads : TakeIteration(t)
    \/ \E t \in Threads : RowStart(t)
    \/ \E t \in Threads : SampleCell(t)
    \/ \E t \in Threads : RowEnd(t)
    \/ \E t \in Threads : LastRow(t)
    \/ \E t \in Threads : ThreadEnd(t)
    \/ Join
    \/ Return
    \/ Rerun

SpecSeeded == InitSeeded /\ [][NextSeeded]_vars

\* ================================================================ claims
\* the value the code stored for the logical cell (l, m) of table tbl, rows
\* and columns counted from 0
CellAt(tbl, l, m) == result[FlatIndex(tbl, l, m)]

TableWritten(tbl) ==
    \A l \in 0..(n_row - 1) : \A m \in 0..(n_col - 1) :
        FlatIndex(tbl, l, m) \in DOMAIN result

RowOf(tbl, l) == [m \in 1..n_col |-> CellAt(tbl, l, m - 1)]

ColOf(tbl, m) == [l \in 1..n_row |-> CellAt(tbl, l - 1, m)]

MarginInvariant(tbl) ==
    /\ TableWritten(tbl)
    /\ \A l \in 0..(n_row - 1) : \A m \in 0..(n_col - 1) : CellAt(tbl, l, m) >= 0
    /\ \A l \in 0..(n_row - 1) : Sum(RowOf(tbl, l)) = n_row_sums[l + 1]
    /\ \A m \in 0..(n_col - 1) : Sum(ColOf(tbl, m)) = n_col_sums[m + 1]
    /\ Sum([l \in 1..n_row |-> Sum(RowOf(tbl, l - 1))]) = n_total

\* C1: for validated margins, when rcont2 has returned, the values it
\* assigned to the logical cells (l, m) are non-negative, every row l sums to
\* row_sums[l], every column m to col_sums[m], and all cells to n_total.
C1_MarginInvariant ==
    (pc = "returned" /\ ValidMargins) => MarginInvariant(0)

\* a returned 3 x 3 table of valid margins with a middle cell above zero
C1_Witness ==
    /\ pc = "returned"
    /\ ValidMargins
    /\ n_row = 3
    /\ n_col = 3
    /\ draws >= 3
    /\ CellAt(0, 1, 1) >= 1

\* C2: a call whose margins are invalid takes no random draw and writes no
\* element of the result buffer, whatever n_total was passed.
C2_InvalidMarginsNeverSampled ==
    ~ValidMargins => (draws = 0 /\ DOMAIN result = {} /\ pc # "returned")

\* C6: the value chosen for row l, column m is stored at flat index
\* l * n_col + m, so the buffer read row-major has the row sums row_sums and
\* the column sums col_sums.
C6_RowMajorLayout ==
    (pc = "returned" /\ ValidMargins) =>
        /\ \A l \in 0..(n_row - 1) :
             Sum([m \in 1..n_col |-> result[l * n_col + (m - 1)]]) = n_row_sums[l + 1]
        /\ \A m \in 0..(n_col - 1) :
             Sum([l \in 1..n_row |-> result[(l - 1) * n_col + m]]) = n_col_sums[m + 1]

\* the margins of the 2 x 2 example: row_sums = [3, 2], col_sums = [4, 1]
C7_Margins ==
    /\ n_row = 2
    /\ n_col = 2
    /\ n_row_sums = <<3, 2>>
    /\ n_col_sums = <<4, 1>>

\* the number of draw classes of the cell at frame f that make one search
\* pass accept the value v
ClassesGiving(f, v) ==
    Cardinality({k \in 1..DrawClasses(CellQuantities(f)) :
        LET p == SearchPass(factorial_table, CellQuantities(f),
                            uni_dist(k, DrawClasses(CellQuantities(f))))
        IN  p.accepted /\ p.nlm = v})

\* C7: with row_sums = [3, 2] and col_sums = [4, 1] the tables returned are
\* [[3,0],[1,1]] and [[2,1],[2,0]] and no other; cell (0,0) is 3 for draws of
\* measure 0.4 and 2 for draws of measure 0.6.
C7_ExactDistribution ==
    /\ (C7_Margins /\ pc = "returned") =>
          \/ <<RowOf(0, 0), RowOf(0, 1)>> = <<<<3, 0>>, <<1, 1>>>>
          \/ <<RowOf(0, 0), RowOf(0, 1)>> = <<<<2, 1>>, <<2, 0>>>>
    /\ (C7_Margins /\ pc = "run" /\ frame[0].pcr = "cell") =>
          /\ 10 * ClassesGiving(frame[0], 3) = 4 * DrawClasses(CellQuantities(frame[0]))
          /\ 10 * ClassesGiving(frame[0], 2) = 6 * DrawClasses(CellQuantities(frame[0]))

\* the table [[3,0],[1,1]], the less likely of the two, has been returned
C7_Witness ==
    /\ C7_Margins
    /\ pc = "returned"
    /\ <<RowOf(0, 0), RowOf(0, 1)>> = <<<<3, 0>>, <<1, 1>>>>

\* thread 0 is at a cell whose remaining total ie is 0
AtZeroCell ==
    /\ pc = "run"
    /\ frame[0].pcr = "cell"
    /\ CellQuantities(frame[0]).ie = 0

\* thread 0 has left the column loop of row l by the break of line 139
ZeroForced ==
    /\ pc = "run"
    /\ frame[0].pcr = "rowend"
    /\ frame[0].ie = 0
    /\ frame[0].m < n_col - 1

\* C8: at a cell (l, m) with ie = 0 the sampler draws nothing, stores 0 in
\* every cell (l, j), j = m .. n_col - 1, raises nothing and goes on to row
\* l + 1 with those cells still 0; the finished table has its margins.
C8_ZeroForcing ==
    /\ [][AtZeroCell =>
            /\ draws' = draws
            /\ pc' = "run"
            /\ frame'[0].pcr = "rowend"
            /\ frame'[0].l = frame[0].l
            /\ \A j \in frame[0].m..(n_col - 1) :
                 /\ FlatIndex(0, frame[0].l, j) \in DOMAIN result'
                 /\ result'[FlatIndex(0, frame[0].l, j)] = 0]_vars
    /\ [][ZeroForced =>
            /\ draws' = draws
            /\ pc' = "run"
            /\ frame'[0].pcr = "row"
            /\ frame'[0].l = frame[0].l + 1
            /\ \A j \in frame[0].m..(n_col - 1) :
                 result'[FlatIndex(0, frame[0].l, j)] = 0]_vars
    /\ []((pc = "returned" /\ ValidMargins /\ n_total = Sum(n_row_sums))
             => MarginInvariant(0))

\* valid margins, and the column loop of a row has been left at ie = 0
C8_Witness == ZeroForced /\ ValidMargins

\* the claim's list of rejected inputs, read off the arguments
Rejected ==
    \/ n_row <= 1
    \/ n_col <= 1
    \/ \E i \in 1..n_row : n_row_sums[i] <= 0
    \/ \E j \in 1..n_col : n_col_sums[j] <= 0
    \/ Sum(n_row_sums) # Sum(n_col_sums)

C4_Determinism ==
    (pc = "returned" /\ run = 2 /\ seed # 0 /\ n_threads = 1) =>
        result = prev_result

\* the second seeded run of a batch of two tables that differ has returned
C4_Witness ==
    /\ pc = "returned"
    /\ run = 2
    /\ seed # 0
    /\ api = "tables"
    /\ n_tables = 2
    /\ result = prev_result
    /\ \E k \in 0..(block_size - 1) : result[k] # result[block_size + k]

\* the workers that wrote into the block of table i
WorkersOf(i) ==
    {writers[idx][k][1] : idx \in {x \in DOMAIN writers : x \div block_size = i},
                          k \in 1..1}

\* C5: in generate_contingency_tables table i is written only into the block
\* [i * n_row * n_col, (i + 1) * n_row * n_col) of the buffer, every i in
\* [0, N) is generated by exactly one worker exactly once, and under every
\* interleaving no element is written by two workers or by two generations.
C5_BatchDisjointness ==
    api = "tables" =>
        /\ \A idx \in DOMAIN writers :
              /\ \A k \in 1..Len(writers[idx]) : writers[idx][k] = writers[idx][1]
              /\ writers[idx][1][2] = idx \div block_size
              /\ idx \in 0..(n_tables * block_size - 1)
        /\ \A i \in 0..(n_tables - 1) :
              /\ Cardinality(WorkersOf(i)) <= 1
              /\ FlatIndex(i, 0, 0) \in DOMAIN writers =>
                    Len(writers[FlatIndex(i, 0, 0)]) = 1
              /\ i \in todo => WorkersOf(i) = {}
              /\ pc = "returned" =>
                    /\ Cardinality(WorkersOf(i)) = 1
                    /\ \A k \in 0..(block_size - 1) :
                          (i * block_size + k) \in DOMAIN writers

\* a batch of two tables has returned, each table written by its own worker
C5_Witness ==
    /\ api = "tables"
    /\ pc = "returned"
    /\ n_tables >= 2
    /\ n_threads >= 2
    /\ WorkersOf(0) # WorkersOf(1)

\* C9: for valid margins whose total T holds, beyond 2^31 - 1 for int64_t,
\* the validator returns the exact sum of the margins and the mode of a
\* sampled cell is round(ia * id / ie), not truncated to 32 bits; the 32-bit
\* variant does the same whenever the total fits in 32 bits.
C9_WidthEquivalence ==
    (unit_bits > 0 /\ ValidMargins /\ FitsT(Sum(n_col_sums)) /\ pc # "call") =>
        /\ api = "check_inputs" =>
              /\ pc = "validated"
              /\ n_total = Sum(n_col_sums)
        /\ api = "rcont2" => pc = "mode"

\* C10: create_factorial_table(n_total) returns n_total + 1 entries F with
\* F[0] = 0 and F[i] = F[i-1] + ln(i) for all i in 1..n_total.
C10_FactorialTable ==
    (api = "create_factorial_table" /\ pc = "returned") =>
        /\ Len(factorial_table) = n_total + 1
        /\ Lookup(factorial_table, 0) = LogZero
        /\ \A i \in 1..n_total :
              Lookup(factorial_table, i) =
                  LogAdd(Lookup(factorial_table, i - 1), Log(i))

\* the table for n_total = 3 has been built: ln 1, ln 1, ln 2, ln 6
C10_Witness ==
    /\ api = "create_factorial_table"
    /\ pc = "returned"
    /\ n_total = 3
    /\ factorial_table = <<Rat(1, 1), Rat(1, 1), Rat(2, 1), Rat(6, 1)>>

\* C11: when the memory of the log-factorial table cannot be obtained,
\* create_factorial_table and a generation call that builds the table fail
\* with an allocation error, with no table entry written and nothing sampled;
\* when the output buffer cannot be obtained the call fails with an
\* allocation error and returns no partial table.
C11_AllocationFailure ==
    (malloc_fails # {} /\ pc # "call") =>
        /\ pc = BadAlloc
        /\ draws = 0
        /\ DOMAIN result = {}
        /\ "factorial_table" \in malloc_fails => factorial_table = <<>>

\* the threads of the team that have made their copy of global_rng
Started == {t \in Threads : frame[t].pcr \notin {"start"}}

\* C12: in a batch every thread draws from its own copy of the root engine
\* with stream id = thread index + 1, so distinct threads have distinct
\* stream ids, a step advances the engine of one thread only and never the
\* root engine; and for one non-zero seed and one assignment of the tables
\* to the threads every interleaving fills the buffer with the same values.
C12_StreamIsolation ==
    /\ [](api = "tables" /\ pc = "run" =>
            /\ global_rng.pos = 0
            /\ \A t \in Started :
                  /\ frame[t].rng.state = global_rng.state
                  /\ frame[t].rng.stream = <<"set", t + 1>>
            /\ \A t, u \in Started :
                  t # u => frame[t].rng.stream # frame[u].rng.stream)
    /\ [][(api = "tables" /\ pc = "run" /\ pc' = "run") =>
            /\ global_rng' = global_rng
            /\ \A t, u \in Threads :
                  (/\ t # u
                   /\ frame[t].pcr # "start"
                   /\ frame[u].pcr # "start"
                   /\ frame'[t].rng # frame[t].rng) =>
                      frame'[u].rng = frame[u].rng]_vars
    /\ []((pc = "returned" /\ run = 2 /\ seed # 0 /\ owner = prev_owner) =>
            result = prev_result)

\* the second run of two tables on two threads, one table each, has returned
\* and the two tables differ
C12_Witness ==
    /\ api = "tables"
    /\ pc = "returned"
    /\ run = 2
    /\ n_threads >= 2
    /\ n_tables >= 2
    /\ owner = prev_owner
    /\ owner[0] # owner[1]
    /\ \E k \in 0..(block_size - 1) : result[k] # result[block_size + k]

\* every element of the block of table i has been written
BlockComplete(i) ==
    \A k \in 0..(block_size - 1) : (i * block_size + k) \in DOMAIN result

\* C13: with valid margins, N tables and W >= 1 threads the batch call
\* eventually returns; when it returns every thread has finished and every
\* one of the N blocks is completely written.
C13_BatchCompletion ==
    /\ (api = "tables" /\ ValidMargins) ~> (pc = "returned")
    /\ []((api = "tables" /\ pc = "returned") =>
            /\ \A t \in Threads : frame[t].pcr = "joined"
            /\ todo = {}
            /\ \A i \in 0..(n_tables - 1) : BlockComplete(i))

\* a batch of two tables on two threads has returned, all blocks written
C13_Witness ==
    /\ api = "tables"
    /\ pc = "returned"
    /\ n_tables = 2
    /\ n_threads = 2
    /\ BlockComplete(0)
    /\ BlockComplete(1)
    /\ \A t \in Threads : frame[t].pcr = "joined"

\* the sum of column m of table 0 over the rows 0 .. n_row - 2
AboveLastRow(m) == Sum([l \in 1..(n_row - 1) |-> CellAt(0, l - 1, m)])

\* the sum of the last row of table 0 over the columns 0 .. n_col - 2
BeforeLastCell == Sum([j \in 1..(n_col - 1) |-> CellAt(0, n_row - 1, j - 1)])

\* rcont2 has stored the last row of table 0
LastRowStored == pc = "run" /\ api = "table" /\ frame[0].pcr = "done"

\* C14: each cell (n_row-1, j), j < n_col-1, of the last row gets jwork[j],
\* which is col_sums[j] minus column j of the rows above; the last cell,
\* ib minus the cell (n_row-1, n_col-2), is row_sums[n_row-1] minus the other
\* cells of the last row and col_sums[n_col-1] minus the last column of the
\* rows above, also after a zero-forcing break in row n_row-2 and for
\* n_col = 2.
C14_ClosingStep ==
    (LastRowStored /\ ValidMargins /\ n_total = Sum(n_col_sums)) =>
        /\ \A j \in 0..(n_col - 2) :
              /\ CellAt(0, n_row - 1, j) = frame[0].jwork[j + 1]
              /\ CellAt(0, n_row - 1, j) = n_col_sums[j + 1] - AboveLastRow(j)
        /\ CellAt(0, n_row - 1, n_col - 1) =
              frame[0].ib - CellAt(0, n_row - 1, n_col - 2)
        /\ CellAt(0, n_row - 1, n_col - 1) = n_row_sums[n_row] - BeforeLastCell
        /\ CellAt(0, n_row - 1, n_col - 1) =
              n_col_sums[n_col] - AboveLastRow(n_col - 1)

\* the last row of a 3 x 3 table is stored after the column loop of row 1
\* ended at ie = 0, with a cell above zero in the last row
C14_Witness ==
    /\ LastRowStored
    /\ ValidMargins
    /\ n_row = 3
    /\ n_col = 3
    /\ frame[0].ie = 0
    /\ CellAt(0, 2, 0) > 0

\* the support of the cell c: max(0, ia + id - ie) .. min(ia, id)
SupportLo(c) == Max(0, c.ia + c.id - c.ie)

SupportHi(c) == Min(c.ia, c.id)

\* the values around mode in the claim's order: step k tries mode + k while
\* it is at most hi, then mode - k while it is at least lo
RECURSIVE Outward(_, _, _, _)
Outward(mode, lo, hi, k) ==
    IF mode + k > hi /\ mode - k < lo THEN <<>>
    ELSE (IF mode + k <= hi THEN <<mode + k>> ELSE <<>>)
         \o (IF mode - k >= lo THEN <<mode - k>> ELSE <<>>)
         \o Outward(mode, lo, hi, k + 1)

IsPrefix(a, b) == Len(a) <= Len(b) /\ a = SubSeq(b, 1, Len(a))

\* thread 0 is about to sample a cell with ie > 0
AtSampledCell ==
    /\ pc = "run"
    /\ frame[0].pcr = "cell"
    /\ CellQuantities(frame[0]).ie > 0

\* C15: a search pass tries the mode, then the values above it in
\* increasing order up to min(ia, id) and the values below it in decreasing
\* order down to max(0, ia + id - ie), one step up then one step down while
\* both directions are live, the other direction going on alone once one has
\* reached its boundary; every value of the support is tried at most once
\* and no value outside it; a pass that accepts stops at a prefix of that
\* order, on the value it tried last.
C15_OutwardWalk ==
    (AtSampledCell /\ ValidMargins) =>
        LET c    == CellQuantities(frame[0])
            mode == Mode(c.ia, c.id, c.ie)
            want == <<mode>> \o Outward(mode, SupportLo(c), SupportHi(c), 1)
            full == SearchPass(factorial_table, c, <<2, 1>>)
            N    == DrawClasses(c)
        IN  /\ ~full.accepted
            /\ full.tried = want
            /\ Len(want) = SupportHi(c) - SupportLo(c) + 1
            /\ \A i \in 1..Len(want) :
                  want[i] \in SupportLo(c)..SupportHi(c)
            /\ \A k \in 1..N :
                  LET p == SearchPass(factorial_table, c, uni_dist(k, N))
                  IN  /\ IsPrefix(p.tried, want)
                      /\ p.accepted => p.nlm = p.tried[Len(p.tried)]

\* ia = id = 4, ie = 8: the pass went 2, 3, 1, 4, 0 and the cell took 0;
\* both directions made two steps in turn
C15_Witness ==
    /\ pc = "returned"
    /\ n_row_sums = <<4, 4>>
    /\ n_col_sums = <<4, 4>>
    /\ CellAt(0, 0, 0) = 0
    /\ SearchPass(factorial_table, [ia |-> 4, ib |-> 4, ic |-> 4, id |-> 4,
                                     ie |-> 8, ii |-> 0], <<139, 140>>).tried
          = <<2, 3, 1, 4, 0>>

\* the call runs on margins check_inputs accepts, with n_total their sum
Validated == ValidMargins /\ n_total = Sum(n_col_sums)

\* thread t has just accepted a value for the cell (l, m - 1): nlm is the
\* value, id and ie are the cell's, and ia was ia + nlm when it was sampled
JustSampled(t) ==
    /\ pc = "run"
    /\ frame[t].pcr \in {"cell", "rowend"}
    /\ frame[t].m >= 1
    /\ frame[t].ie > 0

\* the cell whose quantities f holds
SampledCell(f) ==
    [ia |-> f.ia + f.nlm, id |-> f.id, ie |-> f.ie, ic |-> f.ie - f.id,
     ib |-> f.ie - (f.ia + f.nlm), ii |-> f.ie - (f.ia + f.nlm) - f.id]

\* C16: for validated margins every value accepted for a sampled cell lies
\* in max(0, ia + id - ie) .. min(ia, id) of that cell; the remaining row
\* budget ia and every entry of jwork are never negative, and at every cell
\* ia <= ie, ib = ie - ia >= 0 and ic = ie - id >= 0.
C16_SupportInvariant ==
    (pc = "run" /\ Validated) =>
        \A t \in Threads :
            LET f == frame[t]
            IN  /\ f.pcr # "idle" =>
                     /\ f.ia >= 0
                     /\ \A k \in 1..Len(f.jwork) : f.jwork[k] >= 0
                /\ f.pcr = "cell" =>
                     LET c == CellQuantities(f)
                     IN  /\ c.ia <= c.ie
                         /\ c.ib = c.ie - c.ia
                         /\ c.ib >= 0
                         /\ c.ic = c.ie - c.id
                         /\ c.ic >= 0
                /\ JustSampled(t) =>
                     LET c == SampledCell(f)
                     IN  /\ CellAt(f.tbl, f.l, f.m - 1) = f.nlm
                         /\ SupportLo(c) <= f.nlm
                         /\ f.nlm <= SupportHi(c)

\* a cell took a positive value at the lower end of its support, with ii
\* negative, and another cell of the row is left to sample
C16_Witness ==
    /\ Validated
    /\ JustSampled(0)
    /\ frame[0].pcr = "cell"
    /\ frame[0].ii < 0
    /\ frame[0].nlm = SupportLo(SampledCell(frame[0]))
    /\ frame[0].nlm > 0

\* C17: for validated margins and n_total their sum, each of the nine
\* indices with which a cell reads the log-factorial table at the mode (ia,
\* ib, ic, id, ie, nlm, id - nlm, ia - nlm, ii + nlm) lies in 0..n_total and
\* inside the table, also where ii is negative; nlm is a defined value, so
\* that no cell of rcont2 reads outside the table.
C17_TableLookupBounds ==
    (Validated /\ api # "check_inputs") =>
        /\ pc # Undefined
        /\ pc = "run" =>
             \A t \in Threads :
                 (frame[t].pcr = "cell" /\ CellQuantities(frame[t]).ie > 0) =>
                     LET c   == CellQuantities(frame[t])
                         nlm == Mode(c.ia, c.id, c.ie)
                     IN  \A i \in 1..9 :
                             /\ LookupIndices(c, nlm)[i] \in 0..n_total
                             /\ InTable(factorial_table, LookupIndices(c, nlm)[i])

\* thread 0 has left a pass that accepted nothing and is at line 227
AtRedraw == pc = "run" /\ frame[0].pcr = "redraw"

\* what C18 says of every state: a pass makes at most min(ia, id) -
\* max(0, ia + id - ie) ratio steps, whether it accepts or not; with exact
\* masses the mass accumulated over the whole support is 1 and no pass
\* leaves a cell without a value; the pass after a re-draw accepts
SearchBounded ==
    Validated =>
        /\ AtSampledCell =>
              LET c     == CellQuantities(frame[0])
                  N     == DrawClasses(c)
                  steps == SupportHi(c) - SupportLo(c)
                  full  == SearchPass(factorial_table, c, <<2, 1>>)
              IN  /\ Len(full.tried) - 1 <= steps
                  /\ precision = 0 => full.sumprb = <<1, 1>>
                  /\ \A k \in 1..N :
                        LET p == SearchPass(factorial_table, c, uni_dist(k, N))
                        IN  /\ Len(p.tried) - 1 <= steps
                            /\ precision = 0 => p.accepted
        /\ precision = 0 => ~AtRedraw
        /\ AtRedraw =>
              \A k \in 1..RedrawClasses :
                  SearchPass(factorial_table, RedrawCell(frame[0]),
                             redraw(frame[0].sumprb,
                                    uni_dist(k, RedrawClasses))).accepted

\* C18: for validated margins and every sequence of draws, a search pass
\* makes at most min(ia, id) - max(0, ia + id - ie) ratio steps; with exactly
\* computed masses the first pass accepts and the re-draw is never taken;
\* the pass repeated after a re-draw r = sumprb * u accepts; so the sampling
\* of every cell ends and the call returns.
C18_Termination ==
    /\ []SearchBounded
    /\ (pc = "run" /\ Validated) ~> (pc = "returned")

\* the call has returned after a pass that accepted nothing, a re-draw with
\* 0 < r <= sumprb and a second pass that accepted
C18_Witness ==
    /\ pc = "returned"
    /\ Validated
    /\ precision > 0
    /\ frame[0].r[1] > 0
    /\ RLeq(frame[0].r, frame[0].sumprb)

====
